---- MODULE Spec2Model ----
(***************************************************************************)
(* Model of graphics::Transform (src/src/graphics/transform.rs).           *)
(*                                                                         *)
(* Transform is a newtype around the foreign struct sfTransform, a 3x3     *)
(* row-major matrix of f32.  Every method of Transform forwards to one     *)
(* foreign function of the ffi module.  The foreign functions are not     *)
(* part of the Rust sources; they are modelled here as the wrapped library *)
(* defines them (3x3 matrix algebra on column vectors), over exact         *)
(* rationals instead of f32: a value is a pair <<n, d>> in lowest terms    *)
(* with d > 0.  Rounding, infinities and NaN are outside the model.        *)
(***************************************************************************)
EXTENDS Integers, Sequences, FiniteSets, TLC

----------------------------------------------------------------------------
(* f32 values, idealised as exact rationals *)

Abs(n) == IF n < 0 THEN -n ELSE n

RECURSIVE GCD(_, _)
GCD(a, b) == IF b = 0 THEN a ELSE GCD(b, a % b)

Rat(n, d) ==
    LET s == IF d < 0 THEN -1 ELSE 1
        g == GCD(Abs(n), Abs(d))
    IN  <<(s * n) \div g, (s * d) \div g>>

F(k) == <<k, 1>>

Add(a, b) == Rat(a[1] * b[2] + b[1] * a[2], a[2] * b[2])
Sub(a, b) == Rat(a[1] * b[2] - b[1] * a[2], a[2] * b[2])
Mul(a, b) == Rat(a[1] * b[1], a[2] * b[2])
Div(a, b) == Rat(a[1] * b[2], a[2] * b[1])
Neg(a) == <<-a[1], a[2]>>
Lt(a, b) == a[1] * b[2] < b[1] * a[2]

Zero == F(0)
One == F(1)

(* cos and sin of an angle given in degrees, for the quarter turns *)
Cos(angle) == CASE angle % 360 = 0 -> F(1)
                [] angle % 360 = 90 -> F(0)
                [] angle % 360 = 180 -> F(-1)
                [] angle % 360 = 270 -> F(0)

Sin(angle) == CASE angle % 360 = 0 -> F(0)
                [] angle % 360 = 90 -> F(1)
                [] angle % 360 = 180 -> F(0)
                [] angle % 360 = 270 -> F(-1)

----------------------------------------------------------------------------
(* The foreign functions.  An sfTransform is the sequence of its 9 entries *)
(* in row-major order: t[3*i + j + 1] is the entry of row i, column j.     *)
(* A vector is <<x, y>>, a rectangle is <<left, top, width, height>>.      *)

sfTransform_fromMatrix(a00, a01, a02, a10, a11, a12, a20, a21, a22) ==
    <<a00, a01, a02, a10, a11, a12, a20, a21, a22>>

sfTransform_Identity ==
    sfTransform_fromMatrix(One, Zero, Zero, Zero, One, Zero, Zero, Zero, One)

(* The 4x4 matrix handed to OpenGL: column-major, the 3x3 entries in rows  *)
(* and columns 0, 1 and 3, the identity in row and column 2.               *)
sfTransform_getMatrix(t) ==
    <<t[1], t[4], Zero, t[7],
      t[2], t[5], Zero, t[8],
      Zero, Zero, One,  Zero,
      t[3], t[6], Zero, t[9]>>

sfTransform_det(t) ==
    Add(Sub(Mul(t[1], Sub(Mul(t[9], t[5]), Mul(t[8], t[6]))),
            Mul(t[4], Sub(Mul(t[9], t[2]), Mul(t[8], t[3])))),
        Mul(t[7], Sub(Mul(t[6], t[2]), Mul(t[5], t[3]))))

sfTransform_inverseOf(t, det) ==
    sfTransform_fromMatrix(
        Div(Sub(Mul(t[9], t[5]), Mul(t[8], t[6])), det),
        Div(Neg(Sub(Mul(t[9], t[2]), Mul(t[8], t[3]))), det),
        Div(Sub(Mul(t[6], t[2]), Mul(t[5], t[3])), det),
        Div(Neg(Sub(Mul(t[9], t[4]), Mul(t[7], t[6]))), det),
        Div(Sub(Mul(t[9], t[1]), Mul(t[7], t[3])), det),
        Div(Neg(Sub(Mul(t[6], t[1]), Mul(t[4], t[3]))), det),
        Div(Sub(Mul(t[8], t[4]), Mul(t[7], t[5])), det),
        Div(Neg(Sub(Mul(t[8], t[1]), Mul(t[7], t[2]))), det),
        Div(Sub(Mul(t[5], t[1]), Mul(t[4], t[2])), det))

(* an inverse without the fallback: a singular matrix is returned as is *)
sfTransform_getInverse_NoFallback(t) ==
    LET det == sfTransform_det(t) IN
    IF det # Zero THEN sfTransform_inverseOf(t, det) ELSE t

sfTransform_getInverse(t) ==
    LET det == sfTransform_det(t) IN
    IF det # Zero THEN sfTransform_inverseOf(t, det) ELSE sfTransform_Identity

(* the matrix product a * b, stored into the first argument *)
sfTransform_combine(a, b) ==
    sfTransform_fromMatrix(
        Add(Add(Mul(a[1], b[1]), Mul(a[2], b[4])), Mul(a[3], b[7])),
        Add(Add(Mul(a[1], b[2]), Mul(a[2], b[5])), Mul(a[3], b[8])),
        Add(Add(Mul(a[1], b[3]), Mul(a[2], b[6])), Mul(a[3], b[9])),
        Add(Add(Mul(a[4], b[1]), Mul(a[5], b[4])), Mul(a[6], b[7])),
        Add(Add(Mul(a[4], b[2]), Mul(a[5], b[5])), Mul(a[6], b[8])),
        Add(Add(Mul(a[4], b[3]), Mul(a[5], b[6])), Mul(a[6], b[9])),
        Add(Add(Mul(a[7], b[1]), Mul(a[8], b[4])), Mul(a[9], b[7])),
        Add(Add(Mul(a[7], b[2]), Mul(a[8], b[5])), Mul(a[9], b[8])),
        Add(Add(Mul(a[7], b[3]), Mul(a[8], b[6])), Mul(a[9], b[9])))

sfTransform_translate(t, x, y) ==
    sfTransform_combine(t,
        sfTransform_fromMatrix(One, Zero, x, Zero, One, y, Zero, Zero, One))

sfTransform_rotate(t, angle) ==
    LET cos == Cos(angle)
        sin == Sin(angle)
    IN  sfTransform_combine(t,
            sfTransform_fromMatrix(cos, Neg(sin), Zero,
                                   sin, cos, Zero,
                                   Zero, Zero, One))

sfTransform_rotateWithCenter(t, angle, centerX, centerY) ==
    LET cos == Cos(angle)
        sin == Sin(angle)
    IN  sfTransform_combine(t,
            sfTransform_fromMatrix(
                cos, Neg(sin),
                Add(Mul(centerX, Sub(One, cos)), Mul(centerY, sin)),
                sin, cos,
                Sub(Mul(centerY, Sub(One, cos)), Mul(centerX, sin)),
                Zero, Zero, One))

sfTransform_scale(t, scaleX, scaleY) ==
    sfTransform_combine(t,
        sfTransform_fromMatrix(scaleX, Zero, Zero, Zero, scaleY, Zero,
                               Zero, Zero, One))

sfTransform_scaleWithCenter(t, scaleX, scaleY, centerX, centerY) ==
    sfTransform_combine(t,
        sfTransform_fromMatrix(
            scaleX, Zero, Mul(centerX, Sub(One, scaleX)),
            Zero, scaleY, Mul(centerY, Sub(One, scaleY)),
            Zero, Zero, One))

(* rows 0 and 1 applied to (x, y, 1); row 2 is not read *)
sfTransform_transformPoint(t, point) ==
    <<Add(Add(Mul(t[1], point[1]), Mul(t[2], point[2])), t[3]),
      Add(Add(Mul(t[4], point[1]), Mul(t[5], point[2])), t[6])>>

RECURSIVE sfTransform_bounds(_, _, _, _, _, _)
sfTransform_bounds(points, i, left, top, right, bottom) ==
    IF i > Len(points)
    THEN <<left, top, Sub(right, left), Sub(bottom, top)>>
    ELSE LET px == points[i][1]
             py == points[i][2]
             l == IF Lt(px, left) THEN px ELSE left
             r == IF Lt(px, left) THEN right
                  ELSE IF Lt(right, px) THEN px ELSE right
             u == IF Lt(py, top) THEN py ELSE top
             b == IF Lt(py, top) THEN bottom
                  ELSE IF Lt(bottom, py) THEN py ELSE bottom
         IN  sfTransform_bounds(points, i + 1, l, u, r, b)

sfTransform_transformRect(t, rectangle) ==
    LET left == rectangle[1]
        top == rectangle[2]
        width == rectangle[3]
        height == rectangle[4]
        points ==
            <<sfTransform_transformPoint(t, <<left, top>>),
              sfTransform_transformPoint(t, <<left, Add(top, height)>>),
              sfTransform_transformPoint(t, <<Add(left, width), top>>),
              sfTransform_transformPoint(t, <<Add(left, width), Add(top, height)>>)>>
    IN  sfTransform_bounds(points, 2, points[1][1], points[1][2],
                           points[1][1], points[1][2])

----------------------------------------------------------------------------
(* The methods of Transform.  A method with a `&mut self` receiver yields  *)
(* the receiver after the call next to the value it returns.               *)

(* new reading its argument column by column *)
new_Transposed(m) ==
    sfTransform_fromMatrix(m[1], m[4], m[7], m[2], m[5], m[8], m[3], m[6], m[9])

new(m) ==
    sfTransform_fromMatrix(m[1], m[2], m[3], m[4], m[5], m[6], m[7], m[8], m[9])

Zeros16 == [i \in 1..16 |-> Zero]

(* matrix() declares its 16-element buffer as an immutable binding and     *)
(* lets the foreign function write to it through `as_ptr() as *mut f32`.   *)
(* Writing to an immutable binding is undefined: a build either returns    *)
(* what the foreign function wrote, or the initial zeros it was entitled   *)
(* to assume unchanged.  The value is the set of possible results.         *)
matrix(t) == {sfTransform_getMatrix(t), Zeros16}

identity == sfTransform_Identity

(* inverse() storing the result in the receiver as well *)
inverse_InPlace(t) ==
    [self |-> sfTransform_getInverse(t), ret |-> sfTransform_getInverse(t)]

inverse(t) == [self |-> t, ret |-> sfTransform_getInverse(t)]

(* combine() passing its two pointers in the other order *)
combine_Swapped(t, o) == [self |-> sfTransform_combine(o, t), other |-> o]

(* combine() passing the receiver for both pointers *)
combine_SelfTwice(t, o) == [self |-> sfTransform_combine(t, t), other |-> o]

combine(t, o) == [self |-> sfTransform_combine(t, o), other |-> o]

translate(t, x, y) == sfTransform_translate(t, x, y)

rotate(t, angle) == sfTransform_rotate(t, angle)

rotate_with_center(t, angle, center_x, center_y) ==
    sfTransform_rotateWithCenter(t, angle, center_x, center_y)

scale(t, scale_x, scale_y) == sfTransform_scale(t, scale_x, scale_y)

scale_with_center(t, scale_x, scale_y, center_x, center_y) ==
    sfTransform_scaleWithCenter(t, scale_x, scale_y, center_x, center_y)

transform_point(t, point) ==
    [self |-> t, ret |-> sfTransform_transformPoint(t, point)]

(* transform_rect() moving the rectangle's position and keeping its size *)
transform_rect_KeepSize(t, rectangle) ==
    LET q == sfTransform_transformPoint(t, <<rectangle[1], rectangle[2]>>)
    IN  [self |-> t, ret |-> <<q[1], q[2], rectangle[3], rectangle[4]>>]

transform_rect(t, rectangle) ==
    [self |-> t, ret |-> sfTransform_transformRect(t, rectangle)]

(* default() as a derived Default would give it: every entry zero *)
default_Derived == [i \in 1..9 |-> Zero]

default == identity

----------------------------------------------------------------------------
(* Bounds and inputs *)

MaxCalls == 2
MaxBuild == 3

V(x, y) == <<F(x), F(y)>>
R(l, t, w, h) == <<F(l), F(t), F(w), F(h)>>
M9(s) == [i \in 1..9 |-> F(s[i])]

SelfSeeds == {M9(<<1, 2, 3, 4, 5, 6, 7, 8, 9>>),
              M9(<<2, 1, 3, 0, 1, -1, 0, 0, 1>>),
              M9(<<1, 0, 2, 0, 3, 0, 1, 0, 1>>)}
OtherSeeds == {M9(<<1, 1, 0, 0, 1, 2, 0, 0, 1>>),
               M9(<<1, 0, 1, 0, 2, 0, 0, 1, 1>>)}
Offsets == {V(1, 0), V(-1, 2)}
Angles == {90, 180}
RotCenters == {<<90, V(1, 0)>>, <<90, V(1, 2)>>}
Factors == {V(2, -1), V(0, 0)}
ScaleCenters == {<<V(2, -1), V(1, 2)>>, <<V(0, 0), V(1, 0)>>}
Points == {V(0, 0), V(1, 0), V(2, -1)}
Rects == {R(0, 0, 1, 1), R(1, -1, 2, 3), R(0, 0, -1, 1)}

----------------------------------------------------------------------------
(* State.                                                                  *)
(*   self, other  the two Transform values of the caller                   *)
(*   inv          the Transform last returned by self.inverse(), and the   *)
(*                value of self it was computed from                       *)
(*   ret          the value returned by the last call                      *)
(*   op           the last call: its name, its arguments, and self and     *)
(*                pure before it                                           *)
(*   ctor         how self was constructed and from which array, the array *)
(*                other was constructed from, and whether self is still as *)
(*                constructed                                              *)
(*   pure         self was built from identity by translate, rotate and    *)
(*                scale with non-zero factors only                         *)
(*   budget       number of modifying calls the caller still makes         *)

VARIABLES self, other, inv, ret, op, ctor, pure, budget

vars == <<self, other, inv, ret, op, ctor, pure, budget>>

NoRet == [kind |-> "unit", val |-> <<>>]
NoInv == [has |-> FALSE, val |-> identity, of |-> identity]
Call(name, args) ==
    [name |-> name, pre |-> self, args |-> args, pure |-> pure]
NoCall == [name |-> "init", pre |-> identity, args |-> <<>>, pure |-> FALSE]

Constructed(by, m, om) == [by |-> by, m |-> m, om |-> om, fresh |-> TRUE]

Init ==
    \E om \in OtherSeeds :
        /\ other = new(om)
        /\ \/ /\ self = identity
              /\ ctor = Constructed("identity", <<>>, om)
           \/ /\ self = default
              /\ ctor = Constructed("default", <<>>, om)
           \/ \E m \in SelfSeeds :
                 /\ self = new(m)
                 /\ ctor = Constructed("new", m, om)
    /\ inv = NoInv
    /\ ret = NoRet
    /\ op = NoCall
    /\ pure = (ctor.by # "new")
    /\ budget = MaxCalls

Modify(name, args, t, keepsPure) ==
    /\ budget > 0
    /\ self' = t
    /\ op' = Call(name, args)
    /\ ret' = NoRet
    /\ pure' = (pure /\ keepsPure)
    /\ budget' = budget - 1
    /\ ctor' = [ctor EXCEPT !.fresh = FALSE]
    /\ UNCHANGED inv

Read(name, args, r, kind) ==
    /\ self' = r.self
    /\ ret' = [kind |-> kind, val |-> r.ret]
    /\ op' = Call(name, args)
    /\ UNCHANGED <<other, ctor, pure, budget>>

DoMatrix ==
    \E out \in matrix(self) :
        /\ Read("matrix", <<>>, [self |-> self, ret |-> out], "matrix")
        /\ UNCHANGED inv

DoInverse ==
    LET r == inverse(self) IN
    /\ Read("inverse", <<>>, r, "transform")
    /\ inv' = [has |-> TRUE, val |-> r.ret, of |-> self]

DoCombineOther ==
    LET r == combine(self, other) IN
    /\ Modify("combine", other, r.self, FALSE)
    /\ other' = r.other

DoCombineInverse ==
    LET r == combine(self, inv.val) IN
    /\ inv.has
    /\ Modify("combine_inv", inv.val, r.self, FALSE)
    /\ UNCHANGED other

DoTranslate ==
    \E d \in Offsets :
        /\ Modify("translate", d, translate(self, d[1], d[2]), TRUE)
        /\ UNCHANGED other

DoRotate ==
    \E a \in Angles :
        /\ Modify("rotate", <<F(a)>>, rotate(self, a), TRUE)
        /\ UNCHANGED other

DoRotateWithCenter ==
    \E ac \in RotCenters :
        /\ Modify("rotate_with_center", <<F(ac[1])>> \o ac[2],
                  rotate_with_center(self, ac[1], ac[2][1], ac[2][2]), FALSE)
        /\ UNCHANGED other

DoScale ==
    \E f \in Factors :
        /\ Modify("scale", f, scale(self, f[1], f[2]),
                  f[1] # Zero /\ f[2] # Zero)
        /\ UNCHANGED other

DoScaleWithCenter ==
    \E fc \in ScaleCenters :
        /\ Modify("scale_with_center", fc[1] \o fc[2],
                  scale_with_center(self, fc[1][1], fc[1][2], fc[2][1], fc[2][2]),
                  FALSE)
        /\ UNCHANGED other

DoTransformPoint ==
    \E p \in Points :
        /\ Read("transform_point", p, transform_point(self, p), "point")
        /\ UNCHANGED inv

DoTransformRect ==
    \E r \in Rects :
        /\ Read("transform_rect", r, transform_rect(self, r), "rect")
        /\ UNCHANGED inv

Next ==
    \/ DoMatrix
    \/ DoInverse
    \/ DoCombineOther
    \/ DoCombineInverse
    \/ DoTranslate
    \/ DoRotate
    \/ DoRotateWithCenter
    \/ DoScale
    \/ DoScaleWithCenter
    \/ DoTransformPoint
    \/ DoTransformRect

Spec == Init /\ [][Next]_vars

(* Transforms built from identity by translate, rotate and scale, then     *)
(* combined with their inverse and applied to points.                      *)
InitBuild ==
    /\ self = identity
    /\ \E om \in OtherSeeds :
          /\ other = new(om)
          /\ ctor = Constructed("identity", <<>>, om)
    /\ inv = NoInv
    /\ ret = NoRet
    /\ op = NoCall
    /\ pure = TRUE
    /\ budget = MaxBuild + 1

NextBuild ==
    \/ DoTranslate
    \/ DoRotate
    \/ DoScale
    \/ DoInverse
    \/ DoCombineInverse
    \/ DoTransformPoint

SpecBuild == InitBuild /\ [][NextBuild]_vars

----------------------------------------------------------------------------
(* Properties *)

TestPoints == Points \cup {V(0, 1), V(-3, 5)}

Apply(t, p) == transform_point(t, p).ret

SameMap(t, u) == \A p \in TestPoints : Apply(t, p) = Apply(u, p)

ThirdRow(t) == <<t[7], t[8], t[9]>>
Affine(t) == ThirdRow(t) = <<Zero, Zero, One>>

IsCombine == op.name \in {"combine", "combine_inv"}

(* determinant by expansion along the first row *)
Det3(t) ==
    Add(Sub(Mul(t[1], Sub(Mul(t[5], t[9]), Mul(t[6], t[8]))),
            Mul(t[2], Sub(Mul(t[4], t[9]), Mul(t[6], t[7])))),
        Mul(t[3], Sub(Mul(t[4], t[8]), Mul(t[5], t[7]))))

MinOf(S) == CHOOSE x \in S : \A y \in S : ~Lt(y, x)
MaxOf(S) == CHOOSE x \in S : \A y \in S : ~Lt(x, y)

Corners(r) == {<<r[1], r[2]>>, <<Add(r[1], r[3]), r[2]>>,
               <<r[1], Add(r[2], r[4])>>, <<Add(r[1], r[3]), Add(r[2], r[4])>>}

(* C1: after self.combine(other), self maps every point p to              *)
(* other(old_self(p)): the original self is applied first, then other.     *)
C1_CombineAppliesSelfThenOther ==
    IsCombine =>
        \A p \in TestPoints : Apply(self, p) = Apply(op.args, Apply(op.pre, p))

C3_FusedRotationEqualsThreeCalls ==
    (op.name = "rotate_with_center" /\ op.args[1] = F(90)) =>
        LET cx == op.args[2]
            cy == op.args[3]
            t1 == translate(op.pre, Neg(cx), Neg(cy))
            t2 == rotate(t1, 90)
            t3 == translate(t2, cx, cy)
        IN  SameMap(self, t3)

(* C4, as stated: every Transform value has the third row (0, 0, 1).       *)
C4_AlwaysAffine ==
    /\ Affine(self)
    /\ Affine(other)
    /\ inv.has => Affine(inv.val)

(* C4, amended: when self and other are constructed by identity, default   *)
(* or new from an array whose last three elements are (0, 0, 1), every     *)
(* Transform value reached by combine, translate, rotate,                  *)
(* rotate_with_center, scale, scale_with_center and inverse has the third  *)
(* row (0, 0, 1).                                                          *)
C4_AffineIfConstructedAffine ==
    ((ctor.by = "new" => <<ctor.m[7], ctor.m[8], ctor.m[9]>> = <<Zero, Zero, One>>)
        /\ <<ctor.om[7], ctor.om[8], ctor.om[9]>> = <<Zero, Zero, One>>)
    => (Affine(self) /\ Affine(other) /\ (inv.has => Affine(inv.val)))

C4_Witness ==
    /\ ctor.by = "new"
    /\ <<ctor.m[7], ctor.m[8], ctor.m[9]>> = <<Zero, Zero, One>>
    /\ <<ctor.om[7], ctor.om[8], ctor.om[9]>> = <<Zero, Zero, One>>
    /\ op.name = "combine"
    /\ inv.has /\ inv.val # identity
    /\ self # op.pre

(* C5: inverse() of a transform whose determinant is zero returns the      *)
(* identity transform, entry for entry.                                    *)
C5_SingularInverseIsIdentity ==
    (op.name = "inverse" /\ Det3(op.pre) = Zero) =>
        (ret.kind = "transform" /\ ret.val = identity)

C5_Witness ==
    /\ op.name = "inverse"
    /\ ctor.by = "identity"
    /\ op.pre = scale(identity, Zero, Zero)
    /\ ret.val = identity

(* C6: for T built from identity by translate, rotate and scale with       *)
(* non-zero factors, after T.combine(T.inverse()) T maps every point to    *)
(* itself.                                                                 *)
C6_CombineWithInverseIsIdentityMap ==
    (op.name = "combine_inv" /\ op.pure /\ inv.of = op.pre) =>
        \A p \in TestPoints : Apply(self, p) = p

C6_Witness ==
    /\ op.name = "combine_inv" /\ op.pure /\ inv.of = op.pre
    /\ \E p \in TestPoints : Apply(op.pre, p) # p
    /\ \E i \in 1..9 : inv.val[i][2] # 1
    /\ op.pre[3] # Zero

FreshIdentity == ctor.by \in {"identity", "default"} /\ ctor.fresh

(* C7, as stated: identity() and default() map every point and every       *)
(* rectangle to itself.                                                    *)
C7_IdentityLaw ==
    (FreshIdentity /\ op.name \in {"transform_point", "transform_rect"}) =>
        ret.val = op.args

(* C7, amended: identity() and default() map every point to itself, and    *)
(* every rectangle whose width and height are not negative to itself.      *)
C7_IdentityLawNonNegativeRect ==
    /\ (FreshIdentity /\ op.name = "transform_point") => ret.val = op.args
    /\ (FreshIdentity /\ op.name = "transform_rect"
            /\ ~Lt(op.args[3], Zero) /\ ~Lt(op.args[4], Zero))
        => ret.val = op.args

C7_Witness ==
    /\ ctor.by = "default" /\ ctor.fresh
    /\ op.name = "transform_rect"
    /\ op.args = R(1, -1, 2, 3)
    /\ ret.val = op.args

(* the position in the 16-element matrix of row i, column j of the 3x3 *)
Slot(i, j) ==
    LET at(k) == IF k = 2 THEN 3 ELSE k IN 4 * at(j) + at(i) + 1

Padded(m) ==
    [k \in 1..16 |->
        IF \E i, j \in 0..2 : Slot(i, j) = k
        THEN LET ij == CHOOSE ij \in (0..2) \X (0..2) : Slot(ij[1], ij[2]) = k
             IN  m[3 * ij[1] + ij[2] + 1]
        ELSE IF k = 11 THEN One ELSE Zero]

C9_RectIsBoundingBoxOfCorners ==
    op.name = "transform_rect" =>
        LET mapped == {Apply(op.pre, c) : c \in Corners(op.args)}
            xs == {q[1] : q \in mapped}
            ys == {q[2] : q \in mapped}
        IN  /\ ret.val[1] = MinOf(xs)
            /\ ret.val[2] = MinOf(ys)
            /\ Add(ret.val[1], ret.val[3]) = MaxOf(xs)
            /\ Add(ret.val[2], ret.val[4]) = MaxOf(ys)

C9_Witness ==
    /\ op.name = "transform_rect"
    /\ op.args = R(1, -1, 2, 3)
    /\ op.pre[2] # Zero /\ op.pre[4] # Zero
    /\ ret.val[1] # Apply(op.pre, <<op.args[1], op.args[2]>>)[1]
    /\ ret.val[3] # op.args[3]

(* C10: matrix(), inverse(), transform_point() and transform_rect() leave  *)
(* self unchanged, and combine(other) leaves other unchanged.              *)
C10_ReadsLeaveReceiverUnchanged ==
    [][/\ op'.name \in {"matrix", "inverse", "transform_point", "transform_rect"}
            => self' = self
       /\ op'.name \in {"combine", "combine_inv"} => other' = other]_vars

C10_Witness ==
    /\ op.name = "inverse"
    /\ self = op.pre
    /\ ret.val # self
    /\ ret.val # identity

====
